---------------------------- MODULE Spec2Model ----------------------------
(***************************************************************************)
(* State-machine model of the two scripts of the repository:               *)
(*   src/ativdade01.py   ModeloRegressaoLinear (Pipeline A, regression)    *)
(*   src/atividade02.py  ConsultadorDolarPTAX / executar_consulta          *)
(*                       (Pipeline B, PTAX currency lookup)                *)
(*                                                                         *)
(* Numbers.  The regression works on floats; the model computes with exact *)
(* rationals <<n, d>> (d > 0, lowest terms) over integer-valued samples,   *)
(* so rounding error is not modelled.  The non-finite floats are           *)
(* <<0, 0>> (nan) and <<-1, 0>> (-inf).  Python's None is <<>> for a       *)
(* float field and NoneArr for an array field.                             *)
(*                                                                         *)
(* Libraries.  numpy, pandas (1.x / 2.x, where fillna(method='ffill')      *)
(* exists and fills in place), requests and datetime.strptime are modelled *)
(* by what they do on the inputs the model draws.                          *)
(***************************************************************************)
EXTENDS Integers, Sequences, FiniteSets, TLC

VARIABLES
    modelo,             \* the ModeloRegressaoLinear instance: its six fields
    chamadas,           \* number of method calls made on modelo so far
    ultima,             \* name of the last method called on modelo
    origem,             \* history: the calls that stored dados_x and dados_y (0: none)
    periodo,            \* the period string handed to Pipeline B (sequence of characters)
    entrada,            \* entry point of the Pipeline B run
    pc,                 \* position of the Pipeline B run
    requisicoes,        \* number of HTTP GETs issued in the run
    consulta,           \* the date range of the issued request
    resposta,           \* what the service answered to the request
    dataframe,          \* the sorted (dia, cotacaoVenda) frame handed to the gap filler
    dados_processados,  \* ConsultadorDolarPTAX.dados_processados
    retorno,            \* value returned by the last call
    excecao,            \* exception propagated to the caller by the last call ("" if none)
    saida,              \* messages printed by the last call / the run
    arquivos            \* chart files on disk

vars == <<modelo, chamadas, ultima, origem, periodo, entrada, pc, requisicoes, consulta,
          resposta, dataframe, dados_processados, retorno, excecao, saida, arquivos>>

varsA == <<modelo, chamadas, ultima, origem>>
varsB == <<periodo, entrada, pc, requisicoes, consulta, resposta, dataframe,
           dados_processados>>

-----------------------------------------------------------------------------
(* Bounds of the model *)

\* longest file (number of lines) of Pipeline A
MaxObs == 2
\* most method calls made on one ModeloRegressaoLinear
MaxChamadas == 4
\* the numbers a line of X.txt / y.txt may hold
Valores == {1, 2}

-----------------------------------------------------------------------------
(* Exact arithmetic standing for the floats *)

Abs(n) == IF n < 0 THEN -n ELSE n

RECURSIVE Gcd(_, _)
Gcd(a, b) == IF b = 0 THEN a ELSE Gcd(b, a % b)

\* n/d in lowest terms with a positive denominator (d # 0)
Frac(n, d) ==
    LET g == Gcd(Abs(n), Abs(d))
        s == IF d < 0 THEN -1 ELSE 1
    IN  <<(s * n) \div g, (s * d) \div g>>

RInt(k) == <<k, 1>>
RAdd(a, b) == Frac(a[1] * b[2] + b[1] * a[2], a[2] * b[2])
RSub(a, b) == Frac(a[1] * b[2] - b[1] * a[2], a[2] * b[2])
RMul(a, b) == Frac(a[1] * b[1], a[2] * b[2])
RDiv(a, b) == Frac(a[1] * b[2], a[2] * b[1])

NaN == <<0, 0>>
NegInf == <<-1, 0>>
None == <<>>

RECURSIVE SumInt(_)
SumInt(s) == IF s = <<>> THEN 0 ELSE Head(s) + SumInt(Tail(s))

RECURSIVE SumR(_)
SumR(s) == IF s = <<>> THEN RInt(0) ELSE RAdd(Head(s), SumR(Tail(s)))

-----------------------------------------------------------------------------
(* Pipeline A: ModeloRegressaoLinear *)

NoneArr == [ndim |-> -1, v |-> <<>>]

\* __init__: every field None
ModeloInicial ==
    [dados_x |-> NoneArr, dados_y |-> NoneArr, coef_angular |-> None,
     intercepto |-> None, r_quadrado |-> None, predicoes |-> None]

\* A text file: absent, not numeric, or one number per line
Arquivos ==
    {[estado |-> "ausente", linhas |-> <<>>], [estado |-> "malformado", linhas |-> <<>>]}
    \cup {[estado |-> "ok", linhas |-> l] :
             l \in UNION {[1..k -> Valores] : k \in 0..MaxObs}}

\* np.loadtxt: FileNotFoundError / ValueError, else an array; a one-line file
\* gives a 0-d array, an empty file an empty 1-d array
LoadTxt(arq) ==
    CASE arq.estado = "ausente" -> [exc |-> "FileNotFoundError", arr |-> NoneArr]
      [] arq.estado = "malformado" -> [exc |-> "ValueError", arr |-> NoneArr]
      [] OTHER ->
            [exc |-> "",
             arr |-> [ndim |-> IF Len(arq.linhas) = 1 THEN 0 ELSE 1, v |-> arq.linhas]]

\* The outcome of a method call: the instance after it, the value returned
\* ("" when it raised), the exception propagated to the caller ("" if none)
\* and the messages it printed ("salvo" is printed exactly when the chart
\* file has been written)
Res(self, ret, exc, msgs) ==
    [self |-> self, ret |-> ret, exc |-> exc, msgs |-> msgs]

carregar_dados(self, caminho_x, caminho_y) ==
    LET rx == LoadTxt(caminho_x)
        s1 == [self EXCEPT !.dados_x = rx.arr]
        ry == LoadTxt(caminho_y)
        s2 == [s1 EXCEPT !.dados_y = ry.arr]
    IN  IF rx.exc = "FileNotFoundError" THEN Res(self, "False", "", {"nao_encontrados"})
        ELSE IF rx.exc # "" THEN Res(self, "False", "", {"erro_carregar"})
        ELSE IF ry.exc = "FileNotFoundError" THEN Res(s1, "False", "", {"nao_encontrados"})
        ELSE IF ry.exc # "" THEN Res(s1, "False", "", {"erro_carregar"})
        \* len() of a 0-d array: TypeError, caught by except Exception
        ELSE IF rx.arr.ndim = 0 THEN Res(s2, "False", "", {"carregados", "erro_carregar"})
        \* min() of an empty array: ValueError, caught by except Exception
        ELSE IF rx.arr.v = <<>> \/ ry.arr.v = <<>>
             THEN Res(s2, "False", "", {"carregados", "erro_carregar"})
        ELSE Res(s2, "True", "", {"carregados"})

\* a solve whose two coefficients come out in the other order
CoeficientesTrocados(x, y) ==
    LET n   == Len(x)
        Sx  == SumInt(x)
        Sy  == SumInt(y)
        Sxx == SumInt([i \in 1..n |-> x[i] * x[i]])
        Sxy == SumInt([i \in 1..n |-> x[i] * y[i]])
        det == n * Sxx - Sx * Sx
    IN  IF det = 0 THEN <<>>
        ELSE <<Frac(n * Sxy - Sx * Sy, det), Frac(Sy * Sxx - Sx * Sxy, det)>>

\* beta = (X'X)^(-1) X'y for the design matrix [1 x]: the solution of
\*   [ n   Sx  ] [b0]   [ Sy  ]
\*   [ Sx  Sxx ] [b1] = [ Sxy ]
\* np.linalg.solve raises LinAlgError when the matrix is singular
Coeficientes(x, y) ==
    LET n   == Len(x)
        Sx  == SumInt(x)
        Sy  == SumInt(y)
        Sxx == SumInt([i \in 1..n |-> x[i] * x[i]])
        Sxy == SumInt([i \in 1..n |-> x[i] * y[i]])
        det == n * Sxx - Sx * Sx
    IN  IF det = 0 THEN <<>>
        ELSE <<Frac(Sy * Sxx - Sx * Sxy, det), Frac(n * Sxy - Sx * Sy, det)>>

\* intercepto + coef_angular * dados_x
Predizer(b0, b1, x) == [i \in 1..Len(x) |-> RAdd(b0, RMul(b1, RInt(x[i])))]

treinar_modelo(self) ==
    IF self.dados_x = NoneArr \/ self.dados_y = NoneArr
    THEN Res(self, "False", "", {"carregue_primeiro"})
    \* len() of a 0-d array
    ELSE IF self.dados_x.ndim = 0 THEN Res(self, "", "TypeError", {})
    \* matriz_design.T @ dados_y with a 0-d or a differently long dados_y
    ELSE IF self.dados_y.ndim = 0 \/ Len(self.dados_y.v) # Len(self.dados_x.v)
    THEN Res(self, "", "ValueError", {})
    ELSE LET c == Coeficientes(self.dados_x.v, self.dados_y.v)
         IN  IF c = <<>> THEN Res(self, "", "LinAlgError", {})
             ELSE Res([self EXCEPT !.intercepto = c[1],
                                   !.coef_angular = c[2],
                                   !.predicoes = Predizer(c[1], c[2], self.dados_x.v)],
                      "True", "", {"treinado"})

\* 1 - RSS/TSS as numpy divides: 0/0 is nan, r/0 is inf
RQuadrado(rss, tss) ==
    IF tss[1] = 0 THEN (IF rss[1] = 0 THEN NaN ELSE NegInf)
    ELSE RSub(RInt(1), RDiv(rss, tss))

Quadrado(r) == RMul(r, r)

\* np.sum((dados_y - predicoes) ** 2); a 0-d dados_y is broadcast
SomaQuadResiduos(y, p) ==
    LET yb == IF y.ndim = 0 THEN [i \in 1..Len(p) |-> y.v[1]] ELSE y.v
    IN  SumR([i \in 1..Len(p) |-> Quadrado(RSub(RInt(yb[i]), p[i]))])

\* np.sum((dados_y - np.mean(dados_y)) ** 2)
SomaQuadTotal(y) ==
    LET med == Frac(SumInt(y.v), Len(y.v))
    IN  SumR([i \in 1..Len(y.v) |-> Quadrado(RSub(RInt(y.v[i]), med))])

calcular_metricas(self) ==
    IF self.predicoes = None THEN Res(self, "None", "", {"treine_primeiro"})
    ELSE LET y == self.dados_y
             p == self.predicoes
         IN  \* dados_y - predicoes: shapes (k,) and (n,) do not broadcast
             IF y.ndim = 1 /\ Len(y.v) # Len(p) THEN Res(self, "", "ValueError", {})
             ELSE LET rss == SomaQuadResiduos(y, p)
                      tss == SomaQuadTotal(y)
                      s1  == [self EXCEPT !.r_quadrado = RQuadrado(rss, tss)]
                  IN  \* len(self.dados_y) of a 0-d array, after r_quadrado is stored
                      IF y.ndim = 0 THEN Res(s1, "", "TypeError", {})
                      ELSE Res(s1, "None", "", {"metricas"})

\* aceita0d: whether the plotting library takes a 0-d array as a series (the
\* library is not part of the repository; both outcomes are allowed)
plotar_resultados(self, salvar_como, aceita0d) ==
    IF self.predicoes = None THEN Res(self, "None", "", {"treine_primeiro"})
    ELSE IF (self.dados_x.ndim = 0 \/ self.dados_y.ndim = 0) /\ ~aceita0d
    THEN Res(self, "", "ValueError", {"gerando"})
    \* dados_x[indices_ordenados] of a 0-d array
    ELSE IF self.dados_x.ndim = 0 THEN Res(self, "", "IndexError", {"gerando"})
    \* predicoes[indices_ordenados] with more x than predictions
    ELSE IF Len(self.dados_x.v) > Len(self.predicoes)
    THEN Res(self, "", "IndexError", {"gerando"})
    \* f'{self.r_quadrado:.4f}' with r_quadrado None
    ELSE IF self.r_quadrado = None THEN Res(self, "", "TypeError", {"gerando"})
    ELSE Res(self, salvar_como, "", {"gerando", "salvo"})

executar_analise_completa(self, arquivo_x, arquivo_y, arquivo_saida) ==
    LET r1 == carregar_dados(self, arquivo_x, arquivo_y)
        r2 == treinar_modelo(r1.self)
        r3 == calcular_metricas(r2.self)
        r4 == plotar_resultados(r3.self, arquivo_saida, FALSE)
    IN  IF r1.ret # "True" THEN Res(r1.self, "False", "", r1.msgs)
        ELSE IF r2.exc # "" THEN Res(r2.self, "", r2.exc, r1.msgs \cup r2.msgs)
        ELSE IF r2.ret # "True" THEN Res(r2.self, "False", "", r1.msgs \cup r2.msgs)
        ELSE IF r3.exc # ""
             THEN Res(r3.self, "", r3.exc, r1.msgs \cup r2.msgs \cup r3.msgs)
        ELSE IF r4.exc # ""
             THEN Res(r4.self, "", r4.exc,
                      r1.msgs \cup r2.msgs \cup r3.msgs \cup r4.msgs)
        ELSE Res(r4.self, "True", "",
                 r1.msgs \cup r2.msgs \cup r3.msgs \cup r4.msgs)

\* default name of the chart of Pipeline A
ArquivoSaidaA == "analise_regressao.html"

\* no request issued yet
SemConsulta ==
    [dataInicial |-> <<>>, dataFinalCotacao |-> <<>>, dia_ini |-> 0, dia_fim |-> 0]

\* no answer received yet
SemResposta == [tipo |-> "nenhuma", value |-> <<>>]

\* Pipeline B at rest, for the runs of Pipeline A
InitBOcioso ==
    /\ periodo = <<>>
    /\ entrada = "nenhuma"
    /\ pc = "ocioso"
    /\ requisicoes = 0
    /\ consulta = SemConsulta
    /\ resposta = SemResposta
    /\ dataframe = <<>>
    /\ dados_processados = <<>>

InitA ==
    /\ modelo = ModeloInicial
    /\ chamadas = 0
    /\ ultima = "__init__"
    /\ origem = <<0, 0>>
    /\ retorno = "None"
    /\ excecao = ""
    /\ saida = {}
    /\ arquivos = {}
    /\ InitBOcioso

\* The caller's view of one method call on modelo
Chamar(nome, r) ==
    /\ chamadas < MaxChamadas
    /\ modelo' = r.self
    /\ chamadas' = chamadas + 1
    /\ ultima' = nome
    /\ retorno' = r.ret
    /\ excecao' = r.exc
    /\ saida' = r.msgs
    /\ arquivos' = IF "salvo" \in r.msgs THEN arquivos \cup {ArquivoSaidaA} ELSE arquivos
    /\ UNCHANGED varsB

\* The calls that stored dados_x and dados_y once call number n has loaded
\* fx and fy: dados_x is stored when fx is read, dados_y when both are
Origem(o, n, fx, fy) ==
    <<IF LoadTxt(fx).exc = "" THEN n ELSE o[1],
      IF LoadTxt(fx).exc = "" /\ LoadTxt(fy).exc = "" THEN n ELSE o[2]>>

CarregarDados ==
    \E fx \in Arquivos, fy \in Arquivos :
        /\ Chamar("carregar_dados", carregar_dados(modelo, fx, fy))
        /\ origem' = Origem(origem, chamadas + 1, fx, fy)

TreinarModelo ==
    /\ Chamar("treinar_modelo", treinar_modelo(modelo))
    /\ UNCHANGED origem

CalcularMetricas ==
    /\ Chamar("calcular_metricas", calcular_metricas(modelo))
    /\ UNCHANGED origem

PlotarResultados ==
    \E aceita0d \in BOOLEAN :
        /\ Chamar("plotar_resultados",
                  plotar_resultados(modelo, ArquivoSaidaA, aceita0d))
        /\ UNCHANGED origem

ExecutarAnaliseCompleta ==
    \E fx \in Arquivos, fy \in Arquivos :
        /\ Chamar("executar_analise_completa",
                  executar_analise_completa(modelo, fx, fy, ArquivoSaidaA))
        /\ origem' = Origem(origem, chamadas + 1, fx, fy)

NextA ==
    \/ CarregarDados
    \/ TreinarModelo
    \/ CalcularMetricas
    \/ PlotarResultados
    \/ ExecutarAnaliseCompleta

SpecA == InitA /\ [][NextA]_vars

\* most points of a drawn sample lying on a line
MaxPontos == 3
\* the x of the drawn samples, and the intercepts and slopes of their lines
XAjuste == {1, 2, 3}
InterceptosAjuste == {0, 1}
InclinacoesAjuste == {-1, 0, 2}

\* the file holding the numbers of l, one per line
ArquivoDe(l) == [estado |-> "ok", linhas |-> l]

\* A fresh instance that has loaded a sample of 2..MaxPontos points lying on
\* one of the lines y = a + b*x
InitAjuste ==
    /\ \E a \in InterceptosAjuste, b \in InclinacoesAjuste :
         \E x \in UNION {[1..k -> XAjuste] : k \in 2..MaxPontos} :
            LET y == [i \in 1..Len(x) |-> a + b * x[i]]
                r == carregar_dados(ModeloInicial, ArquivoDe(x), ArquivoDe(y))
            IN  /\ modelo = r.self
                /\ retorno = r.ret
                /\ excecao = r.exc
                /\ saida = r.msgs
    /\ chamadas = 1
    /\ ultima = "carregar_dados"
    /\ origem = <<1, 1>>
    /\ arquivos = {}
    /\ InitBOcioso

NextAjuste ==
    \/ TreinarModelo
    \/ CalcularMetricas

SpecAjuste == InitAjuste /\ [][NextAjuste]_vars

-----------------------------------------------------------------------------
(* Pipeline B: ConsultadorDolarPTAX and executar_consulta *)

\* length of a period string MMYYYY
TamanhoPeriodo == 6
\* how far from TamanhoPeriodo the length of a drawn period string may be
Desvio == 1
\* most records in one API response
MaxRegs == 2
\* the characters a drawn period string is made of ("x" stands for any non-digit)
Alfabeto == {"0", "1", "2", "x"}

Digitos == <<"0", "1", "2", "3", "4", "5", "6", "7", "8", "9">>

EhDigito(c) == \E i \in 1..10 : Digitos[i] = c

\* int() of one digit
ValorDigito(c) == (CHOOSE i \in 1..10 : Digitos[i] = c) - 1

\* int() of a string of digits
RECURSIVE ValorInt(_)
ValorInt(s) ==
    IF s = <<>> THEN 0
    ELSE 10 * ValorInt(SubSeq(s, 1, Len(s) - 1)) + ValorDigito(s[Len(s)])

\* str.isdigit() on the characters drawn
IsDigit(s) == s # <<>> /\ \A i \in 1..Len(s) : EhDigito(s[i])

\* %Y of strptime: \d\d\d\d at position i
CasaAno(s, i) == i + 3 <= Len(s) /\ \A k \in i..(i + 3) : EhDigito(s[k])

\* %m of strptime: the alternatives 1[0-2] | 0[1-9] | [1-9] that match at the
\* start of s, as the lengths matched, in the order the regex tries them
AlternativasMes(s) ==
    (IF Len(s) >= 2 /\ s[1] = "1" /\ s[2] \in {"0", "1", "2"} THEN <<2>> ELSE <<>>)
    \o (IF Len(s) >= 2 /\ s[1] = "0" /\ EhDigito(s[2]) /\ s[2] # "0" THEN <<2>> ELSE <<>>)
    \o (IF Len(s) >= 1 /\ EhDigito(s[1]) /\ s[1] # "0" THEN <<1>> ELSE <<>>)

\* datetime.strptime(s, "%m%Y"): the regex is matched at the start of s with
\* backtracking over the month alternatives; text left after the match, or
\* year 0, is a ValueError
StrpTime(s) ==
    LET casam == SelectSeq(AlternativasMes(s), LAMBDA n : CasaAno(s, n + 1))
    IN  IF casam = <<>> THEN [exc |-> "ValueError", month |-> 0, year |-> 0]
        ELSE LET n == Head(casam)
                 y == ValorInt(SubSeq(s, n + 1, n + 4))
             IN  IF n + 4 # Len(s) \/ y = 0
                 THEN [exc |-> "ValueError", month |-> 0, year |-> 0]
                 ELSE [exc |-> "", month |-> ValorInt(SubSeq(s, 1, n)), year |-> y]

\* _converter_periodo: strptime, any ValueError raised again as ValueError
converter_periodo(p) == StrpTime(p)

\* a leap-year rule without the century exception
IsLeapCadaQuatro(year) == year % 4 = 0

\* calendar.isleap
IsLeap(year) == year % 4 = 0 /\ (year % 100 # 0 \/ year % 400 = 0)

\* calendar.mdays
MDays == <<31, 28, 31, 30, 31, 30, 31, 31, 30, 31, 30, 31>>

\* calendar.monthrange(year, month)[1]
MonthRangeDias(year, month) ==
    MDays[month] + (IF month = 2 /\ IsLeap(year) THEN 1 ELSE 0)

\* _montar_url_consulta: the range asked of the service (dates as
\* <<month, day, year>>, the order of the MM-DD-YYYY text) and the two days
montar_url_consulta(dt) ==
    LET primeiro_dia == 1
        ultimo_dia == MonthRangeDias(dt.year, dt.month)
    IN  [dataInicial |-> <<dt.month, primeiro_dia, dt.year>>,
         dataFinalCotacao |-> <<dt.month, ultimo_dia, dt.year>>,
         dia_ini |-> primeiro_dia,
         dia_fim |-> ultimo_dia]

\* pandas Timestamp (ns) holds the midnights of 1677-09-22 .. 2262-04-11
DataAntes(a, b) ==
    \/ a[1] < b[1]
    \/ a[1] = b[1] /\ a[2] < b[2]
    \/ a[1] = b[1] /\ a[2] = b[2] /\ a[3] <= b[3]

NoLimiteTimestamp(year, month, day) ==
    /\ DataAntes(<<1677, 9, 22>>, <<year, month, day>>)
    /\ DataAntes(<<year, month, day>>, <<2262, 4, 11>>)

\* df_todos_dias.merge(df_original, on='dia', how='left'): the days in order,
\* each with the rows of df_original of that day (in their order), or one row
\* with no value
RECURSIVE MergeLeft(_, _)
MergeLeft(dias, df) ==
    IF dias = <<>> THEN <<>>
    ELSE LET d == Head(dias)
             m == SelectSeq(df, LAMBDA r : r.dia = d)
             linhas == IF m = <<>> THEN <<[dia |-> d, valor |-> <<>>]>>
                       ELSE [i \in 1..Len(m) |-> [dia |-> d, valor |-> <<m[i].cotacaoVenda>>]]
         IN  linhas \o MergeLeft(Tail(dias), df)

\* a fill that leaves the column as it was
FFillSemEfeito(linhas, ultimo) ==
    [i \in 1..Len(linhas) |-> [dia |-> linhas[i].dia, valor_cotacao |-> linhas[i].valor]]

\* fillna(method='ffill'): a missing value takes the last value above it
RECURSIVE FFill(_, _)
FFill(linhas, ultimo) ==
    IF linhas = <<>> THEN <<>>
    ELSE LET v == IF Head(linhas).valor = <<>> THEN ultimo ELSE Head(linhas).valor
         IN  <<[dia |-> Head(linhas).dia, valor_cotacao |-> v]>> \o FFill(Tail(linhas), v)

\* number of rows that hold a value
NotNa(df) == Len(SelectSeq(df, LAMBDA r : r.valor_cotacao # <<>>))

\* _preencher_dias_faltantes
preencher_dias_faltantes(df_original, dt_ref, dia_inicial, dia_final) ==
    IF ~(NoLimiteTimestamp(dt_ref.year, dt_ref.month, dia_inicial)
         /\ NoLimiteTimestamp(dt_ref.year, dt_ref.month, dia_final))
    THEN [exc |-> "OutOfBoundsDatetime", df |-> <<>>, msgs |-> {}]
    ELSE LET todos_dias == [i \in 1..(dia_final - dia_inicial + 1) |-> dia_inicial + i - 1]
             df_final == FFill(MergeLeft(todos_dias, df_original), <<>>)
         IN  [exc |-> "", df |-> df_final,
              msgs |-> IF NotNa(df_final) - Len(df_original) > 0
                       THEN {"dias_preenchidos"} ELSE {}]

\* The days, hours and rates of the records a drawn response holds
DiasResposta == {1, 3}
HorasResposta == {10, 13}
CotacoesResposta == {10, 12}

\* One record of the 'value' array: dataHoraCotacao as <<day, hour>> of the
\* requested month, cotacaoVenda
Registros ==
    [dataHoraCotacao : DiasResposta \X HorasResposta, cotacaoVenda : CotacoesResposta]

\* dataframe['dia'] = dataframe['dataHoraCotacao'].dt.date, then the two columns
Frame(value) ==
    [i \in 1..Len(value) |->
        [dia |-> value[i].dataHoraCotacao[1], cotacaoVenda |-> value[i].cotacaoVenda]]

Permutacoes(n) == {f \in [1..n -> 1..n] : \A i, j \in 1..n : i # j => f[i] # f[j]}

\* sort_values('dia') (the default sort is not stable): every arrangement of
\* the rows with the days ascending
Ordenacoes(df) ==
    {g \in {[i \in 1..Len(df) |-> df[f[i]]] : f \in Permutacoes(Len(df))} :
        \A i \in 1..(Len(g) - 1) : g[i].dia <= g[i + 1].dia}

\* buscar_cotacoes up to requests.get: the exception raised before the request,
\* or the request issued
buscar_cotacoes_ate_get(p) ==
    LET dt_referencia == converter_periodo(p)
    IN  IF dt_referencia.exc # ""
        THEN [exc |-> dt_referencia.exc, consulta |-> SemConsulta, msgs |-> {"buscando"}]
        ELSE [exc |-> "", consulta |-> montar_url_consulta(dt_referencia),
              msgs |-> {"buscando"}]

\* not dados_json.get('value'): no 'value' key, or an empty array
ValueVazioSoSemChave(resp) == resp.tipo = "sem_value"

ValueVazio(resp) == resp.tipo = "sem_value" \/ resp.value = <<>>

ResB(ret, exc, msgs, df, dados) ==
    [ret |-> ret, exc |-> exc, msgs |-> msgs, dataframe |-> df, dados |-> dados]

\* buscar_cotacoes from the answer to requests.get on.  ordenado: the frame as
\* sort_values left it;  json_req: whether the HTTP library raises a
\* RequestException (newer versions) or a plain ValueError for a body that is
\* no JSON.  dados: dados_processados before the call.
buscar_cotacoes_apos_get(p, resp, ordenado, json_req, dados) ==
    LET dt_referencia == converter_periodo(p)
        url == montar_url_consulta(dt_referencia)
    IN  CASE resp.tipo = "timeout" -> ResB("None", "", {"tempo_esgotado"}, <<>>, dados)
          [] resp.tipo \in {"erro_conexao", "http_erro"} ->
                ResB("None", "", {"erro_requisicao"}, <<>>, dados)
          [] resp.tipo = "json_invalido" ->
                IF json_req THEN ResB("None", "", {"erro_requisicao"}, <<>>, dados)
                ELSE ResB("", "ValueError", {}, <<>>, dados)
          [] resp.tipo = "malformado" -> ResB("", "KeyError", {}, <<>>, dados)
          [] OTHER ->
                IF ValueVazio(resp)
                THEN ResB("None", "", {"nenhuma_cotacao"}, <<>>, dados)
                ELSE LET r == preencher_dias_faltantes(ordenado, dt_referencia,
                                                       url.dia_ini, url.dia_fim)
                     IN  IF r.exc # ""
                         THEN ResB("", r.exc, {"registros_obtidos"}, ordenado, dados)
                         ELSE ResB("DataFrame", "", {"registros_obtidos"} \cup r.msgs,
                                   ordenado, r.df)

\* grafico_dolar_ptax_{periodo}.html
NomeArquivo(p) == <<"grafico_dolar_ptax_">> \o p \o <<".html">>

\* a gerar_grafico that does not look at dados_processados first
gerar_grafico_sem_guarda(p, dados) ==
    [ret |-> "nome_arquivo", exc |-> "", msgs |-> {"grafico_salvo"},
     escritos |-> {NomeArquivo(p)}]

\* gerar_grafico: the value returned, the messages, the file written (if any)
gerar_grafico(p, dados) ==
    IF dados = <<>>
    THEN [ret |-> "None", exc |-> "", msgs |-> {"nao_ha_dados"}, escritos |-> {}]
    ELSE IF converter_periodo(p).exc # ""
    THEN [ret |-> "", exc |-> "ValueError", msgs |-> {}, escritos |-> {}]
    ELSE [ret |-> "nome_arquivo", exc |-> "", msgs |-> {"grafico_salvo"},
          escritos |-> {NomeArquivo(p)}]

\* The answers the service may give in the runs that vary the answer
RespostasB ==
    {[tipo |-> t, value |-> <<>>] :
        t \in {"timeout", "erro_conexao", "http_erro", "json_invalido", "sem_value",
               "malformado", "ok"}}
    \cup {[tipo |-> "ok", value |-> v] :
             v \in UNION {[1..k -> Registros] : k \in 1..MaxRegs}}

\* The answers the service may give in the runs that vary the period
RespostasP ==
    {[tipo |-> "timeout", value |-> <<>>],
     [tipo |-> "ok", value |-> <<>>],
     [tipo |-> "ok", value |-> <<[dataHoraCotacao |-> <<3, 13>>, cotacaoVenda |-> 12]>>]}

\* Every string of Alfabeto whose length is within Desvio of TamanhoPeriodo
PeriodosP ==
    UNION {[1..k -> Alfabeto] : k \in (TamanhoPeriodo - Desvio)..(TamanhoPeriodo + Desvio)}

\* The periods of the runs that vary the answer
PeriodosB ==
    {<<"0", "2", "2", "0", "1", "9">>, <<"0", "2", "2", "0", "2", "0">>,
     <<"1", "1", "2", "0", "1", "9">>, <<"2", "2", "0", "1", "9">>,
     <<"1", "3", "2", "0", "1", "9">>, <<"0", "2", "2", "0", "x", "9">>}

\* Pipeline A at rest, for the runs of Pipeline B
InitAOcioso ==
    /\ modelo = ModeloInicial
    /\ chamadas = 0
    /\ ultima = "__init__"
    /\ origem = <<0, 0>>

\* A run of Pipeline B about to start: ConsultadorDolarPTAX(periodo) built by
\* executar_consulta, or by a caller that then calls buscar_cotacoes itself
InitBCom(periodos) ==
    /\ periodo \in periodos
    /\ entrada \in {"executar_consulta", "buscar_cotacoes"}
    /\ pc = "inicio"
    /\ requisicoes = 0
    /\ consulta = SemConsulta
    /\ resposta = SemResposta
    /\ dataframe = <<>>
    /\ dados_processados = <<>>
    /\ retorno = "None"
    /\ excecao = ""
    /\ saida = {}
    /\ arquivos = {}
    /\ InitAOcioso

\* executar_consulta up to the request: the format check, the constructor and
\* buscar_cotacoes until requests.get; an exception ends the run in the
\* except Exception of executar_consulta
ExecutarConsultaInicio ==
    /\ pc = "inicio"
    /\ entrada = "executar_consulta"
    /\ IF Len(periodo) # TamanhoPeriodo \/ ~IsDigit(periodo)
       THEN /\ saida' = {"formato_incorreto"}
            /\ pc' = "fim"
            /\ UNCHANGED <<requisicoes, consulta>>
       ELSE LET r == buscar_cotacoes_ate_get(periodo)
            IN  IF r.exc # ""
                THEN /\ saida' = {"cabecalho", "erro_execucao"} \cup r.msgs
                     /\ pc' = "fim"
                     /\ UNCHANGED <<requisicoes, consulta>>
                ELSE /\ saida' = {"cabecalho"} \cup r.msgs
                     /\ pc' = "aguardando"
                     /\ requisicoes' = requisicoes + 1
                     /\ consulta' = r.consulta
    /\ retorno' = "None"
    /\ excecao' = ""
    /\ UNCHANGED <<periodo, entrada, resposta, dataframe, dados_processados, arquivos>>
    /\ UNCHANGED varsA

\* buscar_cotacoes called on its own, up to the request
BuscarCotacoesInicio ==
    /\ pc = "inicio"
    /\ entrada = "buscar_cotacoes"
    /\ LET r == buscar_cotacoes_ate_get(periodo)
       IN  IF r.exc # ""
           THEN /\ saida' = r.msgs
                /\ pc' = "retornou"
                /\ retorno' = ""
                /\ excecao' = r.exc
                /\ UNCHANGED <<requisicoes, consulta>>
           ELSE /\ saida' = r.msgs
                /\ pc' = "aguardando"
                /\ requisicoes' = requisicoes + 1
                /\ consulta' = r.consulta
                /\ UNCHANGED <<retorno, excecao>>
    /\ UNCHANGED <<periodo, entrada, resposta, dataframe, dados_processados, arquivos>>
    /\ UNCHANGED varsA

\* buscar_cotacoes called on its own, from the answer on
BuscarCotacoesResposta(respostas) ==
    /\ pc = "aguardando"
    /\ entrada = "buscar_cotacoes"
    /\ \E resp \in respostas, json_req \in BOOLEAN :
         \E ordenado \in Ordenacoes(Frame(resp.value)) :
            LET r == buscar_cotacoes_apos_get(periodo, resp, ordenado, json_req,
                                              dados_processados)
            IN  /\ resposta' = resp
                /\ dataframe' = r.dataframe
                /\ dados_processados' = r.dados
                /\ retorno' = r.ret
                /\ excecao' = r.exc
                /\ saida' = saida \cup r.msgs
    /\ pc' = "retornou"
    /\ UNCHANGED <<periodo, entrada, requisicoes, consulta, arquivos>>
    /\ UNCHANGED varsA

\* gerar_grafico called on its own after buscar_cotacoes
GerarGrafico ==
    /\ pc = "retornou"
    /\ entrada = "buscar_cotacoes"
    /\ LET g == gerar_grafico(periodo, dados_processados)
       IN  /\ retorno' = g.ret
           /\ excecao' = g.exc
           /\ saida' = saida \cup g.msgs
           /\ arquivos' = arquivos \cup g.escritos
    /\ pc' = "fim"
    /\ UNCHANGED <<periodo, entrada, requisicoes, consulta, resposta, dataframe,
                   dados_processados>>
    /\ UNCHANGED varsA

\* executar_consulta from the answer on: the rest of buscar_cotacoes, then
\* gerar_grafico and the statistics if it returned data; any exception is
\* caught by except Exception
ExecutarConsultaResposta(respostas) ==
    /\ pc = "aguardando"
    /\ entrada = "executar_consulta"
    /\ \E resp \in respostas, json_req \in BOOLEAN :
         \E ordenado \in Ordenacoes(Frame(resp.value)) :
            LET r == buscar_cotacoes_apos_get(periodo, resp, ordenado, json_req,
                                              dados_processados)
                g == gerar_grafico(periodo, r.dados)
            IN  /\ resposta' = resp
                /\ dataframe' = r.dataframe
                /\ dados_processados' = r.dados
                /\ IF r.exc # ""
                   THEN /\ saida' = saida \cup r.msgs \cup {"erro_execucao"}
                        /\ UNCHANGED arquivos
                   ELSE IF r.ret = "None"
                   THEN /\ saida' = saida \cup r.msgs \cup {"rodape"}
                        /\ UNCHANGED arquivos
                   ELSE /\ saida' = saida \cup r.msgs \cup g.msgs
                                       \cup {"estatisticas", "rodape"}
                        /\ arquivos' = arquivos \cup g.escritos
    /\ pc' = "fim"
    /\ retorno' = "None"
    /\ excecao' = ""
    /\ UNCHANGED <<periodo, entrada, requisicoes, consulta>>
    /\ UNCHANGED varsA

NextBCom(respostas) ==
    \/ ExecutarConsultaInicio
    \/ ExecutarConsultaResposta(respostas)
    \/ BuscarCotacoesInicio
    \/ BuscarCotacoesResposta(respostas)
    \/ GerarGrafico

InitB == InitBCom(PeriodosB)
NextB == NextBCom(RespostasB)
SpecB == InitB /\ [][NextB]_vars

InitP == InitBCom(PeriodosP)
NextP == NextBCom(RespostasP)
SpecPeriodo == InitP /\ [][NextP]_vars

\* last day of the ranges drawn for the gap filler alone
MaxDia == 5

\* the period of the runs of the gap filler alone
PeriodoPreencher == <<"0", "2", "2", "0", "1", "9">>

\* the elements of a set of days, ascending
RECURSIVE EmOrdem(_)
EmOrdem(S) ==
    IF S = {} THEN <<>>
    ELSE LET m == CHOOSE d \in S : \A e \in S : d <= e
         IN  <<m>> \o EmOrdem(S \ {m})

\* The frames buscar_cotacoes hands to the gap filler when every day has at
\* most one record: one row per quoted day of 1..n, days ascending
QuadrosSemRepeticao(n) ==
    {[i \in 1..Len(EmOrdem(DOMAIN f)) |->
         [dia |-> EmOrdem(DOMAIN f)[i], cotacaoVenda |-> f[EmOrdem(DOMAIN f)[i]]]] :
       f \in UNION {[S -> CotacoesResposta] : S \in SUBSET (1..n)}}

\* _preencher_dias_faltantes about to be called on a drawn frame and range
InitPreencher ==
    /\ periodo = PeriodoPreencher
    /\ entrada = "preencher_dias_faltantes"
    /\ pc = "preencher"
    /\ requisicoes = 0
    /\ \E n \in 1..MaxDia :
         /\ consulta = [SemConsulta EXCEPT !.dia_ini = 1, !.dia_fim = n]
         /\ dataframe \in QuadrosSemRepeticao(n)
    /\ resposta = SemResposta
    /\ dados_processados = <<>>
    /\ retorno = "None"
    /\ excecao = ""
    /\ saida = {}
    /\ arquivos = {}
    /\ InitAOcioso

PreencherDiasFaltantes ==
    /\ pc = "preencher"
    /\ LET r == preencher_dias_faltantes(dataframe, converter_periodo(periodo),
                                         consulta.dia_ini, consulta.dia_fim)
       IN  /\ dados_processados' = r.df
           /\ retorno' = IF r.exc = "" THEN "DataFrame" ELSE ""
           /\ excecao' = r.exc
           /\ saida' = r.msgs
    /\ pc' = "fim"
    /\ UNCHANGED <<periodo, entrada, requisicoes, consulta, resposta, dataframe, arquivos>>
    /\ UNCHANGED varsA

NextPreencher == PreencherDiasFaltantes

SpecPreencher == InitPreencher /\ [][NextPreencher]_vars

-----------------------------------------------------------------------------
(* The claims *)

Max(S) == CHOOSE d \in S : \A e \in S : e <= d

DiasCotados(df) == {df[i].dia : i \in 1..Len(df)}

\* the rate of the record of day d
CotacaoDoDia(df, d) == df[CHOOSE i \in 1..Len(df) : df[i].dia = d].cotacaoVenda

\* C1: over the full range of days, _preencher_dias_faltantes gives each day
\* with a quote its own rate, each day without one the rate of the nearest
\* preceding quoted day, and no rate exactly to the days before the first
\* quoted day ({1:10, 3:12} over [1,5] gives [10,10,12,12,12], {3:12} over
\* [1,5] leaves days 1-2 without a rate).
C1_PreencheComUltimoValor ==
    (pc = "fim" /\ entrada = "preencher_dias_faltantes") =>
        /\ excecao = ""
        /\ Len(dados_processados) = consulta.dia_fim - consulta.dia_ini + 1
        /\ \A d \in consulta.dia_ini..consulta.dia_fim :
              LET linha == dados_processados[d - consulta.dia_ini + 1]
                  antes == {e \in DiasCotados(dataframe) : e <= d}
              IN  /\ linha.dia = d
                  /\ linha.valor_cotacao =
                        IF antes = {} THEN <<>>
                        ELSE <<CotacaoDoDia(dataframe, Max(antes))>>

C1_Witness ==
    /\ pc = "fim"
    /\ entrada = "preencher_dias_faltantes"
    /\ dataframe = <<[dia |-> 1, cotacaoVenda |-> 10], [dia |-> 3, cotacaoVenda |-> 12]>>
    /\ consulta.dia_fim = 5
    /\ dados_processados
         = <<[dia |-> 1, valor_cotacao |-> <<10>>], [dia |-> 2, valor_cotacao |-> <<10>>],
             [dia |-> 3, valor_cotacao |-> <<12>>], [dia |-> 4, valor_cotacao |-> <<12>>],
             [dia |-> 5, valor_cotacao |-> <<12>>]>>

\* C2: the fetched records are one per calendar day and ascending by day, and
\* the completed sequence buscar_cotacoes stores and returns has exactly one
\* entry per calendar day of the requested month, ascending, whatever the
\* response (several records of one date included).
C2_UmaLinhaPorDia ==
    /\ \A i, j \in 1..Len(dataframe) : i < j => dataframe[i].dia < dataframe[j].dia
    /\ dados_processados # <<>> =>
          /\ Len(dados_processados) = consulta.dia_fim
          /\ \A i \in 1..Len(dados_processados) : dados_processados[i].dia = i

\* a period of exactly 6 digits whose first two are a month 1..12
PeriodoBemFormado(p) ==
    /\ Len(p) = TamanhoPeriodo
    /\ IsDigit(p)
    /\ ValorInt(SubSeq(p, 1, 2)) \in 1..12

\* C3: a period that is not exactly 6 digits, or whose digits are no valid
\* month and year, is rejected with an error and no HTTP GET is ever issued
\* for it, by executar_consulta and by buscar_cotacoes alike.
C3_RejeitadoAntesDaRede ==
    (~PeriodoBemFormado(periodo) /\ pc # "inicio") =>
        /\ requisicoes = 0
        /\ \/ excecao = "ValueError"
           \/ "formato_incorreto" \in saida
           \/ "erro_execucao" \in saida

ZeroRegistros == resposta.tipo = "ok" /\ resposta.value = <<>>

FalhaDeRede == resposta.tipo \in {"timeout", "erro_conexao", "http_erro"}

\* C4 as stated: on zero records buscar_cotacoes returns an empty-result
\* signal (None), raises nothing, no chart is rendered, and that signal is
\* not what a timeout or a request error returns.
C4_SinalDistinto ==
    /\ ZeroRegistros =>
          /\ excecao = ""
          /\ arquivos = {}
          /\ dados_processados = <<>>
          /\ "nenhuma_cotacao" \in saida
          /\ (entrada = "buscar_cotacoes" /\ pc = "retornou") => retorno = "None"
    /\ (FalhaDeRede /\ entrada = "buscar_cotacoes" /\ pc = "retornou") => retorno # "None"

\* C4 amended: on zero records buscar_cotacoes prints the no-quotes message
\* and returns None without raising, and no chart is rendered; a timeout or a
\* request error returns the same None, and differs only in the message
\* printed (the no-quotes message is never printed for them).
C4_SinalVazio ==
    /\ ZeroRegistros =>
          /\ excecao = ""
          /\ arquivos = {}
          /\ dados_processados = <<>>
          /\ "nenhuma_cotacao" \in saida
          /\ saida \cap {"tempo_esgotado", "erro_requisicao", "erro_execucao"} = {}
          /\ (entrada = "buscar_cotacoes" /\ pc = "retornou") => retorno = "None"
    /\ FalhaDeRede =>
          /\ "nenhuma_cotacao" \notin saida
          /\ (entrada = "buscar_cotacoes" /\ pc = "retornou") => retorno = "None"

C4_Witness ==
    /\ ZeroRegistros
    /\ entrada = "executar_consulta"
    /\ pc = "fim"
    /\ "rodape" \in saida

\* C5: a run issues at most one request; when it times out or fails
\* (connection error, non-2xx status) the failure is reported, there is no
\* second request, dados_processados stays unset and no chart file is written.
C5_UmaRequisicaoSemRetry ==
    /\ requisicoes <= 1
    /\ FalhaDeRede =>
          /\ requisicoes = 1
          /\ dados_processados = <<>>
          /\ arquivos = {}
          /\ excecao = ""
          /\ IF resposta.tipo = "timeout" THEN "tempo_esgotado" \in saida
             ELSE "erro_requisicao" \in saida

C5_Witness ==
    /\ resposta.tipo = "timeout"
    /\ entrada = "buscar_cotacoes"
    /\ pc = "fim"
    /\ "nao_ha_dados" \in saida
    /\ requisicoes = 1

\* C6: executar_analise_completa ends by returning normally (True or False)
\* for every pair of input files: no exception reaches its caller.
C6_SemExcecaoPropagada ==
    ultima = "executar_analise_completa" =>
        /\ excecao = ""
        /\ retorno \in {"True", "False"}

\* the last day of month m of year y in the Gregorian calendar
UltimoDiaDoMes(y, m) ==
    CASE m \in {4, 6, 9, 11} -> 30
      [] m = 2 -> IF y % 400 = 0 \/ (y % 4 = 0 /\ y % 100 # 0) THEN 29 ELSE 28
      [] OTHER -> 31

\* C7: for a 6-digit period MMYYYY with month 1..12 the range asked of the
\* service is the first through the last calendar day of that month (month
\* length and leap years counted: 022019 gives 28, 022020 gives 29), and the
\* completed sequence starts and ends on those same days.
C7_PrimeiroEUltimoDia ==
    /\ (PeriodoBemFormado(periodo) /\ ValorInt(SubSeq(periodo, 3, 6)) >= 1
        /\ pc # "inicio") =>
          LET m == ValorInt(SubSeq(periodo, 1, 2))
              y == ValorInt(SubSeq(periodo, 3, 6))
          IN  /\ requisicoes = 1
              /\ consulta.dataInicial = <<m, 1, y>>
              /\ consulta.dataFinalCotacao = <<m, UltimoDiaDoMes(y, m), y>>
              /\ dados_processados # <<>> =>
                    /\ dados_processados[1].dia = 1
                    /\ dados_processados[Len(dados_processados)].dia = UltimoDiaDoMes(y, m)
    /\ montar_url_consulta(converter_periodo(<<"0", "2", "2", "0", "1", "9">>)).dia_fim = 28
    /\ montar_url_consulta(converter_periodo(<<"0", "2", "2", "0", "2", "0">>)).dia_fim = 29

C7_Witness ==
    /\ periodo = <<"0", "2", "2", "0", "2", "0">>
    /\ pc = "fim"
    /\ consulta.dataFinalCotacao = <<2, 29, 2020>>
    /\ Len(dados_processados) = 29
    /\ dados_processados[29].dia = 29

\* the loaded sample lies on the line y = a + b*x
NaReta(a, b) ==
    /\ modelo.dados_x.ndim = 1
    /\ modelo.dados_y.ndim = 1
    /\ Len(modelo.dados_x.v) >= 2
    /\ Len(modelo.dados_y.v) = Len(modelo.dados_x.v)
    /\ \E i, j \in 1..Len(modelo.dados_x.v) : modelo.dados_x.v[i] # modelo.dados_x.v[j]
    /\ \A i \in 1..Len(modelo.dados_x.v) : modelo.dados_y.v[i] = a + b * modelo.dados_x.v[i]

\* the fit of a sample on y = a + b*x: training succeeds and recovers a and
\* b, and the metrics, once computed, are R2 = 1 with no residual (RMSE = 0)
Recupera(a, b) ==
    /\ ultima = "treinar_modelo" => retorno = "True"
    /\ modelo.predicoes # None =>
          /\ modelo.intercepto = RInt(a)
          /\ modelo.coef_angular = RInt(b)
          /\ SomaQuadResiduos(modelo.dados_y, modelo.predicoes) = RInt(0)
    /\ ultima = "calcular_metricas" =>
          (modelo.predicoes # None => modelo.r_quadrado = RInt(1))

\* C8 as stated: for any a, b and any sample of at least 2 points with
\* non-constant x exactly on y = a + b*x, treinar_modelo then calcular_metricas
\* recover intercepto = a, coef_angular = b and give r_quadrado = 1, RMSE = 0.
C8_RoundTrip ==
    \A a \in -3..3, b \in -3..3 : NaReta(a, b) => Recupera(a, b)

\* C8 amended: the same for any a and any b # 0 (for b = 0 all y are equal,
\* the total sum of squares is 0 and r_quadrado is nan).
C8_RoundTripInclinado ==
    \A a \in -3..3, b \in (-3..3) \ {0} : NaReta(a, b) => Recupera(a, b)

C8_Witness ==
    /\ ultima = "calcular_metricas"
    /\ modelo.dados_x.v = <<1, 2, 3>>
    /\ modelo.dados_y.v = <<2, 4, 6>>
    /\ modelo.intercepto = RInt(0)
    /\ modelo.coef_angular = RInt(2)
    /\ modelo.r_quadrado = RInt(1)

\* a call of method nome has just been made
Chamou(nome) == chamadas' = chamadas + 1 /\ ultima' = nome

\* the call was refused without effect, returning ret
Recusada(ret) ==
    /\ retorno' = ret
    /\ excecao' = ""
    /\ modelo' = modelo
    /\ arquivos' = arquivos
    /\ "salvo" \notin saida'

\* C9: treinar_modelo with dados_x or dados_y unset returns False, and
\* calcular_metricas and plotar_resultados with predicoes unset return None,
\* each leaving the six fields as they were and writing no chart; and once
\* treinar_modelo has succeeded plotar_resultados writes the chart and returns
\* its path.
C9_RecusaEConverso ==
    [][/\ (Chamou("treinar_modelo")
            /\ (modelo.dados_x = NoneArr \/ modelo.dados_y = NoneArr))
          => Recusada("False")
       /\ (Chamou("calcular_metricas") /\ modelo.predicoes = None) => Recusada("None")
       /\ (Chamou("plotar_resultados") /\ modelo.predicoes = None) => Recusada("None")
       /\ (Chamou("plotar_resultados") /\ modelo.predicoes # None)
          => /\ retorno' = ArquivoSaidaA
             /\ excecao' = ""
             /\ ArquivoSaidaA \in arquivos'
             /\ "salvo" \in saida']_vars

\* C10: dados_x and dados_y come from the same load, and whenever predicoes
\* is set it is intercepto + coef_angular * dados_x for the dados_x stored now.
C10_ResultadosDoDadoAtual ==
    /\ (modelo.dados_x # NoneArr /\ modelo.dados_y # NoneArr) => origem[1] = origem[2]
    /\ modelo.predicoes # None =>
          /\ modelo.dados_x.ndim = 1
          /\ modelo.predicoes
               = Predizer(modelo.intercepto, modelo.coef_angular, modelo.dados_x.v)

=============================================================================
